---- MODULE Spec2Model ----
(***************************************************************************)
(* Model of minhash_dedupe: src/src/main.rs (the dedup pipeline of main)   *)
(* and src/src/rensa.rs (RMinHash, RMinHashLSH).                           *)
(*                                                                         *)
(* Integers are scaled down: the program hashes with 64-bit words and      *)
(* keeps 32-bit slots; the model hashes with HashBits-bit words and keeps  *)
(* the high half of each permuted word, so that wrapping multiplication,   *)
(* rotation and the shift are computed as the code computes them and TLC   *)
(* can still enumerate them.  num_perm and num_bands are scaled the same   *)
(* way (256 and 5 in main.rs), keeping num_perm not divisible by           *)
(* num_bands.                                                              *)
(*                                                                         *)
(* The pipeline (Spec): each rayon worker takes the next line from the     *)
(* reader, reads its embedded records in order and runs each through       *)
(* write-lock, any_matches, fetch_add, insert, drop, statistics, output.   *)
(* The progress message only reads the counters and is left out.  The two  *)
(* statistics counters are added in one step; nothing reads them between.  *)
(* The record stream of a line is serde_json's StreamDeserializer: after   *)
(* it has yielded an error it yields nothing more.                         *)
(* RMinHash and RMinHashLSH are also driven directly, with arbitrary       *)
(* calls, by SpecSig and SpecLSH.                                          *)
(***************************************************************************)
EXTENDS Integers, Sequences, FiniteSets, TLC

\* ------------------------------------------------------------------ bounds
HashBits == 12      \* width of a hash word (u64 in the program)
NumPerm == 7        \* num_perm given to RMinHash::new and RMinHashLSH::new
NumBands == 3       \* num_bands given to RMinHashLSH::new
MaxLines == 2       \* lines the reader yields before it is exhausted
MaxRecords == 3     \* embedded records in the lines of the input, in total
MaxInserts == 2     \* inserts of the index harness (SpecLSH)
MaxKey == 1         \* largest key the index harness inserts
MaxUpdates == 2     \* update calls per signature of the signature harness

\* ------------------------------------------------------- program constants
Seed == 0           \* RMinHash::new(256, 0)
Threshold == 7      \* RMinHashLSH::new(0.7, ..), in tenths

Workers == {"t1", "t2"}       \* threads of the rayon pool
NoWorker == "none"

\* ------------------------------------------------------------- arithmetic
RECURSIVE Pow2(_)
Pow2(n) == IF n = 0 THEN 1 ELSE 2 * Pow2(n - 1)

Word == Pow2(HashBits)                  \* 2^64 in the program
SlotBits == HashBits - (HashBits \div 2) \* 32: the bits kept by permute_hash
U32Max == Pow2(SlotBits) - 1            \* u32::MAX

RECURSIVE BitXor(_, _)
BitXor(a, b) ==
    IF a = 0 THEN b
    ELSE IF b = 0 THEN a
    ELSE (((a % 2) + (b % 2)) % 2) + 2 * BitXor(a \div 2, b \div 2)

rotate_left(h, r) == ((h * Pow2(r)) % Word) + (h \div Pow2(HashBits - r))

\* FxHasher's multiplier 0x51_7c_c1_b7_27_22_0a_95, low bits
FxSeed == 2709 % Word

\* FxHasher::add_to_hash: hash = (hash.rotate_left(5) ^ word).wrapping_mul(SEED)
\* (each operand is evaluated once)
add_to_hash(h, w) ==
    CHOOSE r \in {(BitXor(rot, word) * FxSeed) % Word :
                    rot \in {rotate_left(h, 5)}, word \in {w % Word}} : TRUE

\* the bytes of the characters the inputs are made of
Byte(c) ==
    CASE c = "x" -> 120 [] c = "X" -> 88 [] c = "y" -> 121 [] c = "z" -> 122
      [] c = "=" -> 61 [] c = "1" -> 49 [] c = " " -> 32

RECURSIVE FxWrite(_, _)
FxWrite(h, bytes) ==
    IF bytes = <<>> THEN h
    ELSE FxWrite(add_to_hash(h, Byte(Head(bytes))), Tail(bytes))

\* calculate_hash(&item): str::hash writes the bytes, then the byte 0xff
calculate_hash(t) == add_to_hash(FxWrite(0, t), 255)

\* permute_hash: ((a.wrapping_mul(hash).wrapping_add(b)) >> 32) as u32
permute_hash(hash, a, b) == ((a * hash + b) % Word) \div Pow2(HashBits \div 2)

RECURSIVE band_hash_from(_, _)
band_hash_from(h, band) ==
    IF band = <<>> THEN h
    ELSE band_hash_from(add_to_hash(h, Head(band)), Tail(band))

\* calculate_band_hash: FxHasher::default(), write_u32 of every value, finish
calculate_band_hash(band) == band_hash_from(0, band)

\* ------------------------------------------------------------- RMinHash
\* StdRng::seed_from_u64(seed) and rng.gen(): a deterministic generator
\* whose stream depends on the seed alone (a linear congruential stand-in
\* for the crate's generator).
rng_gen(s) == (s * 1597 + 1013) % Word

RECURSIVE rng_stream(_, _)
rng_stream(s, n) ==
    IF n = 0 THEN <<>> ELSE <<rng_gen(s)>> \o rng_stream(rng_gen(s), n - 1)

\* RMinHash::new(num_perm, seed)
RMinHash_new(num_perm, seed) ==
    LET r == rng_stream(seed % Word, 2 * num_perm) IN
    [ num_perm     |-> num_perm,
      hash_values  |-> [i \in 1..num_perm |-> U32Max],
      permutations |-> [i \in 1..num_perm |-> <<r[2 * i - 1], r[2 * i]>>] ]

Min(a, b) == IF a < b THEN a ELSE b

\* mutant: the slot is overwritten instead of keeping the minimum
update_item_overwrite(m, item) ==
    LET item_hash == calculate_hash(item) IN
    [m EXCEPT !.hash_values =
        [i \in 1..Len(m.hash_values) |->
            permute_hash(item_hash, m.permutations[i][1], m.permutations[i][2])]]

\* the inner loop of RMinHash::update for one item
update_item(m, item) ==
    LET item_hash == calculate_hash(item) IN
    [m EXCEPT !.hash_values =
        [i \in 1..Len(m.hash_values) |->
            Min(m.hash_values[i],
                permute_hash(item_hash, m.permutations[i][1], m.permutations[i][2]))]]

\* RMinHash::update(items)
RECURSIVE update(_, _)
update(m, items) ==
    IF items = <<>> THEN m ELSE update(update_item(m, Head(items)), Tail(items))

\* RMinHash::digest
digest(m) == m.hash_values

\* ----------------------------------------------------------- RMinHashLSH
None == <<>>
Some(v) == <<v>>

\* HashMap::new()
EmptyMap == [h \in {} |-> <<>>]

\* RMinHashLSH::new(threshold, num_perm, num_bands)
RMinHashLSH_new(threshold, num_perm, num_bands) ==
    [ threshold   |-> threshold,
      num_perm    |-> num_perm,
      num_bands   |-> num_bands,
      band_size   |-> num_perm \div num_bands,
      hash_tables |-> [i \in 0..(num_bands - 1) |-> EmptyMap] ]

\* &digest[start..end] with start = i * band_size, end = start + band_size
\* mutant: the last band runs to the end of the signature
band_slice_to_end(lsh, d, i) ==
    SubSeq(d, i * lsh.band_size + 1,
           IF i = lsh.num_bands - 1 THEN Len(d)
           ELSE i * lsh.band_size + lsh.band_size)

\* rensa.rs 112-114, 132-134, 147-149: the slots of band i
band_slice(lsh, d, i) ==
    SubSeq(d, i * lsh.band_size + 1, i * lsh.band_size + lsh.band_size)

band_hash_of(lsh, d, i) == calculate_band_hash(band_slice(lsh, d, i))

\* table.entry(band_hash).or_insert_with(Vec::new).push(key)
entry_push(table, band_hash, key) ==
    [h \in (DOMAIN table) \cup {band_hash} |->
        IF h = band_hash
        THEN Append(IF band_hash \in DOMAIN table THEN table[band_hash] ELSE <<>>, key)
        ELSE table[h]]

\* mutant: each table is replaced by one holding only the new entry
insert_evicting(lsh, key, minhash) ==
    [lsh EXCEPT !.hash_tables =
        [i \in DOMAIN lsh.hash_tables |->
            entry_push(EmptyMap, band_hash_of(lsh, digest(minhash), i), key)]]

\* RMinHashLSH::insert(key, minhash)
insert(lsh, key, minhash) ==
    [lsh EXCEPT !.hash_tables =
        [i \in DOMAIN lsh.hash_tables |->
            entry_push(lsh.hash_tables[i], band_hash_of(lsh, digest(minhash), i), key)]]

\* mutant: the loop returns None at the first table without an entry
any_matches_from_early_return(lsh, d, i) ==
    IF i \notin DOMAIN lsh.hash_tables THEN None
    ELSE IF band_hash_of(lsh, d, i) \in DOMAIN lsh.hash_tables[i]
         THEN Some(lsh.hash_tables[i][band_hash_of(lsh, d, i)])
         ELSE None

\* the loop of RMinHashLSH::any_matches from table i on
RECURSIVE any_matches_from(_, _, _)
any_matches_from(lsh, d, i) ==
    IF i \notin DOMAIN lsh.hash_tables THEN None
    ELSE IF band_hash_of(lsh, d, i) \in DOMAIN lsh.hash_tables[i]
         THEN Some(lsh.hash_tables[i][band_hash_of(lsh, d, i)])
         ELSE any_matches_from(lsh, d, i + 1)

\* mutant: only the first table is consulted
any_matches_first_table(lsh, minhash) ==
    IF band_hash_of(lsh, digest(minhash), 0) \in DOMAIN lsh.hash_tables[0]
    THEN Some(lsh.hash_tables[0][band_hash_of(lsh, digest(minhash), 0)])
    ELSE None

\* mutant: a match counts only when the share of colliding bands reaches the
\* threshold
any_matches_thresholded(lsh, minhash) ==
    IF 10 * Cardinality({i \in DOMAIN lsh.hash_tables :
             band_hash_of(lsh, digest(minhash), i) \in DOMAIN lsh.hash_tables[i]})
          >= lsh.threshold * lsh.num_bands
    THEN any_matches_from(lsh, digest(minhash), 0)
    ELSE None

\* RMinHash::jaccard, as the pair (equal_count, num_perm)
jaccard(m1, m2) ==
    <<Cardinality({j \in DOMAIN m1.hash_values \cap DOMAIN m2.hash_values :
                     m1.hash_values[j] = m2.hash_values[j]}),
      m1.num_perm>>

\* RMinHashLSH::is_similar; the threshold is in tenths
is_similar(lsh, m1, m2) == 10 * jaccard(m1, m2)[1] >= lsh.threshold * jaccard(m1, m2)[2]

\* RMinHashLSH::any_matches(minhash)
any_matches(lsh, minhash) == any_matches_from(lsh, digest(minhash), 0)

\* candidates.extend(keys) over the tables in order
RECURSIVE candidates_from(_, _, _)
candidates_from(lsh, d, i) ==
    IF i \notin DOMAIN lsh.hash_tables THEN <<>>
    ELSE (IF band_hash_of(lsh, d, i) \in DOMAIN lsh.hash_tables[i]
          THEN lsh.hash_tables[i][band_hash_of(lsh, d, i)]
          ELSE <<>>) \o candidates_from(lsh, d, i + 1)

RECURSIVE sorted_insert(_, _)
sorted_insert(s, x) ==
    IF s = <<>> THEN <<x>>
    ELSE IF x <= Head(s) THEN <<x>> \o s
    ELSE <<Head(s)>> \o sorted_insert(Tail(s), x)

\* candidates.sort_unstable()
RECURSIVE sort_unstable(_)
sort_unstable(s) ==
    IF s = <<>> THEN <<>> ELSE sorted_insert(sort_unstable(Tail(s)), Head(s))

\* candidates.dedup(): drops consecutive repeated elements
RECURSIVE dedup(_)
dedup(s) ==
    IF Len(s) <= 1 THEN s
    ELSE IF s[1] = s[2] THEN dedup(Tail(s))
    ELSE <<s[1]>> \o dedup(Tail(s))

\* mutant: the candidates are not sorted before dedup
query_unsorted(lsh, minhash) == dedup(candidates_from(lsh, digest(minhash), 0))

\* RMinHashLSH::query(minhash)
query(lsh, minhash) == dedup(sort_unstable(candidates_from(lsh, digest(minhash), 0)))

\* ------------------------------------------------------------- the input
\* struct File { filename, contents }; contents is a sequence of characters
Files ==
    { [filename |-> "a.py", contents |-> <<"x", " ", "=", " ", "1">>],
      [filename |-> "b.py", contents |-> <<"x", " ", "=", " ", "1">>],
      [filename |-> "c.py", contents |-> <<"X", " ", "1">>],
      [filename |-> "d.py", contents |-> <<"x">>] }
NoFile == [filename |-> "", contents |-> <<>>]

\* an embedded record of a line: a File, or text that does not parse as one
Malformed == [filename |-> "?", contents |-> <<"?">>]
Embedded == Files \cup {Malformed}

RECURSIVE SeqsUpTo(_, _)
SeqsUpTo(S, n) ==
    IF n = 0 THEN {<<>>}
    ELSE LET shorter == SeqsUpTo(S, n - 1) IN
         shorter \cup {Append(q, x) : q \in {r \in shorter : Len(r) = n - 1}, x \in S}

\* a line the reader decoded: the embedded records it holds, in textual order
LineValues == SeqsUpTo(Embedded, MaxRecords)

\* String::to_lowercase
lower_char(c) == IF c = "X" THEN "x" ELSE c
to_lowercase(s) == [i \in 1..Len(s) |-> lower_char(s[i])]

\* str::split(' '): the pieces between single spaces (empty pieces kept)
RECURSIVE split_from(_, _)
split_from(s, piece) ==
    IF s = <<>> THEN <<piece>>
    ELSE IF Head(s) = " " THEN <<piece>> \o split_from(Tail(s), <<>>)
    ELSE split_from(Tail(s), Append(piece, Head(s)))

split(s) == split_from(s, <<>>)

\* enc.encode_ordinary(&contents).len(): the tokenizer is an external crate;
\* the count is a fixed function of the contents (here its pieces)
encode_ordinary_len(contents) == Len(split(contents))

\* main.rs 92-93: RMinHash::new(256, 0) and update(contents.split(' '))
minhash_of(contents) == update(RMinHash_new(NumPerm, Seed), split(contents))

\* main.rs 90-93 for each record of the input: contents.to_lowercase(), then
\* the RMinHash updated with its tokens
Signatures == [f \in Files |-> minhash_of(to_lowercase(f.contents))]

\* ------------------------------------------------------------- the state
VARIABLES
    lines_read,       \* lines the reader has yielded (buf_reader.lines())
    records_read,     \* embedded records in the lines yielded so far
    lines_failed,     \* history: lines that did not decode
    exhausted,        \* the reader returned None
    pc,               \* per worker: its place in the closure
    rest,             \* per worker: embedded records of its line not yet read
    failed,           \* per worker: the record stream of its line has failed
    done,             \* history, per worker: the records of its line already handled
    file_with_contents, \* per worker: the record being processed
    minhasher,        \* per worker: its RMinHash
    matches,          \* per worker: what any_matches returned
    current_accepted, \* per worker: the key fetch_add returned
    big_lsh,          \* the shared RMinHashLSH
    lsh_lock,         \* the worker holding big_lsh.write(), or NoWorker
    out_lock,         \* the worker holding out_file.lock(), or NoWorker
    accepted, accepted_bytes, accepted_tokens, content_bytes,
    out_file,         \* the lines written to the output, in order
    inserted,         \* history: the records inserted, in insertion order
    parsed            \* history: how often each File was parsed

pipeVars == <<lines_read, records_read, lines_failed, exhausted, pc, rest, failed, done, file_with_contents, minhasher,
              matches, current_accepted, big_lsh, lsh_lock, out_lock,
              accepted, accepted_bytes, accepted_tokens, content_bytes,
              out_file, inserted, parsed>>

\* the state of the two library harnesses (SpecSig, SpecLSH)
VARIABLES
    sg_seed,          \* the seed both signature generators were built with
    sg,               \* two RMinHash instances
    sg_items,         \* history: the items each was updated with, in order
    sg_calls,         \* history: the update calls made on each
    lx,               \* an RMinHashLSH
    lx_log,           \* history: the (key, signature) pairs inserted, in order
    lx_last           \* the last call made on lx and what it returned

sigVars == <<sg_seed, sg, sg_items, sg_calls>>
lshVars == <<lx, lx_log, lx_last>>

vars == <<pipeVars, sigVars, lshVars>>

FreshHasher == RMinHash_new(NumPerm, Seed)

PipeInit ==
    /\ lines_read = 0
    /\ records_read = 0
    /\ lines_failed = 0
    /\ exhausted = FALSE
    /\ pc = [w \in Workers |-> "idle"]
    /\ rest = [w \in Workers |-> <<>>]
    /\ failed = [w \in Workers |-> FALSE]
    /\ done = [w \in Workers |-> <<>>]
    /\ file_with_contents = [w \in Workers |-> NoFile]
    /\ minhasher = [w \in Workers |-> FreshHasher]
    /\ matches = [w \in Workers |-> None]
    /\ current_accepted = [w \in Workers |-> 0]
    /\ big_lsh = RMinHashLSH_new(Threshold, NumPerm, NumBands)
    /\ lsh_lock = NoWorker
    /\ out_lock = NoWorker
    /\ accepted = 0
    /\ accepted_bytes = 0
    /\ accepted_tokens = 0
    /\ content_bytes = 0
    /\ out_file = <<>>
    /\ inserted = <<>>
    /\ parsed = [f \in Files |-> 0]

Generators == {1, 2}

SigInitWith(seed) ==
    /\ sg_seed = seed
    /\ sg = [g \in Generators |-> RMinHash_new(NumPerm, seed)]
    /\ sg_items = [g \in Generators |-> <<>>]
    /\ sg_calls = [g \in Generators |-> 0]

NoCall == [op |-> "none", key |-> 0, hash_values |-> <<>>, result |-> <<>>]

LshInit ==
    /\ lx = RMinHashLSH_new(Threshold, NumPerm, NumBands)
    /\ lx_log = <<>>
    /\ lx_last = NoCall

Init == PipeInit /\ SigInitWith(Seed) /\ LshInit

locals == <<file_with_contents, minhasher, matches, current_accepted>>
shared == <<big_lsh, lsh_lock, out_lock, accepted, accepted_bytes, accepted_tokens,
            content_bytes, out_file, inserted, parsed>>

\* ----------------------------------------------------------- the actions
\* the reader is exhausted: par_bridge hands out no more lines
Exhaust(w) ==
    /\ pc[w] = "idle"
    /\ ~exhausted
    /\ exhausted' = TRUE
    /\ UNCHANGED <<lines_read, records_read, lines_failed, pc, rest, failed, done,
                   locals, shared>>

\* mutant: the reader is abandoned at the first line that does not decode
TakeErrStops(w) ==
    /\ pc[w] = "idle"
    /\ ~exhausted
    /\ lines_read < MaxLines
    /\ lines_read' = lines_read + 1
    /\ lines_failed' = lines_failed + 1
    /\ exhausted' = TRUE
    /\ UNCHANGED <<records_read, pc, rest, failed, done, locals, shared>>

\* main.rs 62-68: the line did not decode; the closure returns
TakeErr(w) ==
    /\ pc[w] = "idle"
    /\ ~exhausted
    /\ lines_read < MaxLines
    /\ lines_read' = lines_read + 1
    /\ lines_failed' = lines_failed + 1
    /\ UNCHANGED <<records_read, exhausted, pc, rest, failed, done, locals, shared>>

\* main.rs 62-81: the line decoded; a record stream is opened on it
TakeOk(w) ==
    /\ pc[w] = "idle"
    /\ ~exhausted
    /\ lines_read < MaxLines
    /\ \E line \in LineValues :
        /\ Len(line) <= MaxRecords - records_read
        /\ records_read' = records_read + Len(line)
        /\ rest' = [rest EXCEPT ![w] = line]
        /\ failed' = [failed EXCEPT ![w] = FALSE]
    /\ lines_read' = lines_read + 1
    /\ pc' = [pc EXCEPT ![w] = "next"]
    /\ UNCHANGED <<lines_failed, exhausted, done, locals, shared>>

\* main.rs 81: the stream yields None: at the end of the line, or after it
\* failed (serde_json's StreamDeserializer yields nothing after an error)
StreamEnd(w) ==
    /\ pc[w] = "next"
    /\ (rest[w] = <<>> \/ failed[w])
    /\ pc' = [pc EXCEPT ![w] = "idle"]
    /\ rest' = [rest EXCEPT ![w] = <<>>]
    /\ failed' = [failed EXCEPT ![w] = FALSE]
    /\ done' = [done EXCEPT ![w] = <<>>]
    /\ UNCHANGED <<lines_read, records_read, lines_failed, exhausted, locals, shared>>

\* main.rs 82-88: the stream yields Err; "error!" is printed, continue
ParseErr(w) ==
    /\ pc[w] = "next"
    /\ ~failed[w]
    /\ rest[w] # <<>>
    /\ Head(rest[w]) = Malformed
    /\ rest' = [rest EXCEPT ![w] = Tail(rest[w])]
    /\ failed' = [failed EXCEPT ![w] = TRUE]
    /\ UNCHANGED <<lines_read, records_read, lines_failed, exhausted, pc, done, locals, shared>>

\* mutant: the stream yields the records of a line from the back
ParseOkLast(w) ==
    /\ pc[w] = "next"
    /\ ~failed[w]
    /\ rest[w] # <<>>
    /\ rest[w][Len(rest[w])] # Malformed
    /\ LET f == rest[w][Len(rest[w])] IN
        /\ file_with_contents' = [file_with_contents EXCEPT ![w] = f]
        /\ content_bytes' = content_bytes + Len(f.contents)
        /\ minhasher' = [minhasher EXCEPT ![w] = Signatures[f]]
        /\ parsed' = [parsed EXCEPT ![f] = @ + 1]
    /\ rest' = [rest EXCEPT ![w] = SubSeq(rest[w], 1, Len(rest[w]) - 1)]
    /\ pc' = [pc EXCEPT ![w] = "write_lock"]
    /\ UNCHANGED <<lines_read, records_read, lines_failed, exhausted, failed, done, matches, current_accepted,
                   big_lsh, lsh_lock, out_lock, accepted, accepted_bytes,
                   accepted_tokens, out_file, inserted>>

\* main.rs 82-93: the stream yields a File; content_bytes, lowercase, minhash
ParseOk(w) ==
    /\ pc[w] = "next"
    /\ ~failed[w]
    /\ rest[w] # <<>>
    /\ Head(rest[w]) # Malformed
    /\ LET f == Head(rest[w]) IN
        /\ file_with_contents' = [file_with_contents EXCEPT ![w] = f]
        /\ content_bytes' = content_bytes + Len(f.contents)
        /\ minhasher' = [minhasher EXCEPT ![w] = Signatures[f]]
        /\ parsed' = [parsed EXCEPT ![f] = @ + 1]
    /\ rest' = [rest EXCEPT ![w] = Tail(rest[w])]
    /\ pc' = [pc EXCEPT ![w] = "write_lock"]
    /\ UNCHANGED <<lines_read, records_read, lines_failed, exhausted, failed, done, matches, current_accepted,
                   big_lsh, lsh_lock, out_lock, accepted, accepted_bytes,
                   accepted_tokens, out_file, inserted>>

\* mutant: a shared lock (big_lsh.read()) that does not exclude other workers
AcquireIndexShared(w) ==
    /\ pc[w] = "write_lock"
    /\ lsh_lock' = w
    /\ pc' = [pc EXCEPT ![w] = "any_matches"]
    /\ UNCHANGED <<lines_read, records_read, lines_failed, exhausted, rest, failed, done, locals,
                   big_lsh, out_lock, accepted, accepted_bytes, accepted_tokens,
                   content_bytes, out_file, inserted, parsed>>

\* main.rs 95: big_lsh.write() blocks until no other thread holds the lock
AcquireIndex(w) ==
    /\ pc[w] = "write_lock"
    /\ lsh_lock = NoWorker
    /\ lsh_lock' = w
    /\ pc' = [pc EXCEPT ![w] = "any_matches"]
    /\ UNCHANGED <<lines_read, records_read, lines_failed, exhausted, rest, failed, done, locals,
                   big_lsh, out_lock, accepted, accepted_bytes, accepted_tokens,
                   content_bytes, out_file, inserted, parsed>>

\* mutant: the lock is released after the check and not held for the insert
AnyMatchesUnlocking(w) ==
    /\ pc[w] = "any_matches"
    /\ LET m == any_matches(big_lsh, minhasher[w]) IN
        /\ matches' = [matches EXCEPT ![w] = m]
        /\ pc' = [pc EXCEPT ![w] = IF m = None THEN "fetch_add" ELSE "discard"]
    /\ lsh_lock' = NoWorker
    /\ UNCHANGED <<lines_read, records_read, lines_failed, exhausted, rest, failed, done,
                   file_with_contents, minhasher, current_accepted,
                   big_lsh, out_lock, accepted, accepted_bytes, accepted_tokens,
                   content_bytes, out_file, inserted, parsed>>

\* mutant: the key is taken before the check, so a rejected record counts
AnyMatchesCounting(w) ==
    /\ pc[w] = "any_matches"
    /\ LET m == any_matches(big_lsh, minhasher[w]) IN
        /\ matches' = [matches EXCEPT ![w] = m]
        /\ pc' = [pc EXCEPT ![w] = IF m = None THEN "fetch_add" ELSE "discard"]
    /\ accepted' = accepted + 1
    /\ UNCHANGED <<lines_read, records_read, lines_failed, exhausted, rest, failed, done,
                   file_with_contents, minhasher, current_accepted,
                   big_lsh, lsh_lock, out_lock, accepted_bytes, accepted_tokens,
                   content_bytes, out_file, inserted, parsed>>

\* mutant: the arms of the match are swapped
AnyMatchesSwapped(w) ==
    /\ pc[w] = "any_matches"
    /\ LET m == any_matches(big_lsh, minhasher[w]) IN
        /\ matches' = [matches EXCEPT ![w] = m]
        /\ pc' = [pc EXCEPT ![w] = IF m = None THEN "discard" ELSE "fetch_add"]
    /\ UNCHANGED <<lines_read, records_read, lines_failed, exhausted, rest, failed, done, file_with_contents,
                   minhasher, current_accepted, shared>>

\* mutant: the record is inserted whatever any_matches returned
AnyMatchesIgnored(w) ==
    /\ pc[w] = "any_matches"
    /\ LET m == any_matches(big_lsh, minhasher[w]) IN
        /\ matches' = [matches EXCEPT ![w] = m]
        /\ pc' = [pc EXCEPT ![w] = "fetch_add"]
    /\ UNCHANGED <<lines_read, records_read, lines_failed, exhausted, rest, failed, done, file_with_contents,
                   minhasher, current_accepted, shared>>

\* main.rs 96: lsh.any_matches(&minhasher)
AnyMatches(w) ==
    /\ pc[w] = "any_matches"
    /\ LET m == any_matches(big_lsh, minhasher[w]) IN
        /\ matches' = [matches EXCEPT ![w] = m]
        /\ pc' = [pc EXCEPT ![w] = IF m = None THEN "fetch_add" ELSE "discard"]
    /\ UNCHANGED <<lines_read, records_read, lines_failed, exhausted, rest, failed, done, file_with_contents,
                   minhasher, current_accepted, shared>>

\* mutant: the discarded record is written to the output as well
DiscardAndEmit(w) ==
    /\ pc[w] = "discard"
    /\ lsh_lock' = NoWorker
    /\ out_file' = Append(out_file, file_with_contents[w])
    /\ pc' = [pc EXCEPT ![w] = "next"]
    /\ file_with_contents' = [file_with_contents EXCEPT ![w] = NoFile]
    /\ minhasher' = [minhasher EXCEPT ![w] = FreshHasher]
    /\ matches' = [matches EXCEPT ![w] = None]
    /\ done' = [done EXCEPT ![w] =
          Append(@, [file |-> file_with_contents[w], accepted |-> FALSE])]
    /\ UNCHANGED <<lines_read, records_read, lines_failed, exhausted, rest, failed,
                   current_accepted, big_lsh, out_lock, accepted, accepted_bytes,
                   accepted_tokens, content_bytes, inserted, parsed>>

\* main.rs 97-99 and 112: the Some arm is empty; the guard is dropped at the
\* end of the loop body
Discard(w) ==
    /\ pc[w] = "discard"
    /\ lsh_lock' = NoWorker
    /\ pc' = [pc EXCEPT ![w] = "next"]
    /\ file_with_contents' = [file_with_contents EXCEPT ![w] = NoFile]
    /\ minhasher' = [minhasher EXCEPT ![w] = FreshHasher]
    /\ matches' = [matches EXCEPT ![w] = None]
    /\ done' = [done EXCEPT ![w] =
          Append(@, [file |-> file_with_contents[w], accepted |-> FALSE])]
    /\ UNCHANGED <<lines_read, records_read, lines_failed, exhausted, rest, failed, current_accepted,
                   big_lsh, out_lock, accepted, accepted_bytes, accepted_tokens,
                   content_bytes, out_file, inserted, parsed>>

\* mutant: the key is the counter's value after the increment
FetchAddReturnsNew(w) ==
    /\ pc[w] = "fetch_add"
    /\ current_accepted' = [current_accepted EXCEPT ![w] = accepted + 1]
    /\ accepted' = accepted + 1
    /\ pc' = [pc EXCEPT ![w] = "insert"]
    /\ UNCHANGED <<lines_read, records_read, lines_failed, exhausted, rest, failed, done,
                   file_with_contents, minhasher, matches, big_lsh, lsh_lock,
                   out_lock, accepted_bytes, accepted_tokens, content_bytes,
                   out_file, inserted, parsed>>

\* main.rs 102: accepted.fetch_add(1, SeqCst)
FetchAdd(w) ==
    /\ pc[w] = "fetch_add"
    /\ current_accepted' = [current_accepted EXCEPT ![w] = accepted]
    /\ accepted' = accepted + 1
    /\ pc' = [pc EXCEPT ![w] = "insert"]
    /\ UNCHANGED <<lines_read, records_read, lines_failed, exhausted, rest, failed, done, file_with_contents,
                   minhasher, matches, big_lsh, lsh_lock, out_lock,
                   accepted_bytes, accepted_tokens, content_bytes, out_file,
                   inserted, parsed>>

\* main.rs 103: lsh.insert(current_accepted as usize, &minhasher)
Insert(w) ==
    /\ pc[w] = "insert"
    /\ big_lsh' = insert(big_lsh, current_accepted[w], minhasher[w])
    /\ inserted' = Append(inserted, [key |-> current_accepted[w],
                                      file |-> file_with_contents[w],
                                      hash_values |-> digest(minhasher[w])])
    /\ pc' = [pc EXCEPT ![w] = "drop"]
    /\ UNCHANGED <<lines_read, records_read, lines_failed, exhausted, rest, failed, done, locals,
                   lsh_lock, out_lock, accepted, accepted_bytes, accepted_tokens,
                   content_bytes, out_file, parsed>>

\* mutant: the guard is forgotten, not dropped: the lock stays held
DropForgotten(w) ==
    /\ pc[w] = "drop"
    /\ lsh_lock' = lsh_lock
    /\ pc' = [pc EXCEPT ![w] = "stats"]
    /\ UNCHANGED <<lines_read, records_read, lines_failed, exhausted, rest, failed, done, locals,
                   big_lsh, out_lock, accepted, accepted_bytes, accepted_tokens,
                   content_bytes, out_file, inserted, parsed>>

\* main.rs 104: drop(lsh)
Drop(w) ==
    /\ pc[w] = "drop"
    /\ lsh_lock' = NoWorker
    /\ pc' = [pc EXCEPT ![w] = "stats"]
    /\ UNCHANGED <<lines_read, records_read, lines_failed, exhausted, rest, failed, done, locals,
                   big_lsh, out_lock, accepted, accepted_bytes, accepted_tokens,
                   content_bytes, out_file, inserted, parsed>>

\* main.rs 106-108: accepted_bytes and accepted_tokens, then serialization
Stats(w) ==
    /\ pc[w] = "stats"
    /\ accepted_bytes' = accepted_bytes + Len(file_with_contents[w].contents)
    /\ accepted_tokens' = accepted_tokens
                            + encode_ordinary_len(file_with_contents[w].contents)
    /\ pc' = [pc EXCEPT ![w] = "out_lock"]
    /\ UNCHANGED <<lines_read, records_read, lines_failed, exhausted, rest, failed, done, locals,
                   big_lsh, lsh_lock, out_lock, accepted, content_bytes,
                   out_file, inserted, parsed>>

\* main.rs 109: out_file.lock() blocks until no other thread holds the lock
AcquireOut(w) ==
    /\ pc[w] = "out_lock"
    /\ out_lock = NoWorker
    /\ out_lock' = w
    /\ pc' = [pc EXCEPT ![w] = "writeln"]
    /\ UNCHANGED <<lines_read, records_read, lines_failed, exhausted, rest, failed, done, locals,
                   big_lsh, lsh_lock, accepted, accepted_bytes, accepted_tokens,
                   content_bytes, out_file, inserted, parsed>>

\* main.rs 109-112: writeln!, the guard is dropped, the loop body ends
Writeln(w) ==
    /\ pc[w] = "writeln"
    /\ out_file' = Append(out_file, file_with_contents[w])
    /\ out_lock' = NoWorker
    /\ pc' = [pc EXCEPT ![w] = "next"]
    /\ file_with_contents' = [file_with_contents EXCEPT ![w] = NoFile]
    /\ minhasher' = [minhasher EXCEPT ![w] = FreshHasher]
    /\ matches' = [matches EXCEPT ![w] = None]
    /\ current_accepted' = [current_accepted EXCEPT ![w] = 0]
    /\ done' = [done EXCEPT ![w] =
          Append(@, [file |-> file_with_contents[w], accepted |-> TRUE])]
    /\ UNCHANGED <<lines_read, records_read, lines_failed, exhausted, rest, failed,
                   big_lsh, lsh_lock, accepted, accepted_bytes, accepted_tokens,
                   content_bytes, inserted, parsed>>

PipeNext ==
    \E w \in Workers :
        \/ Exhaust(w)
        \/ TakeErr(w)
        \/ TakeOk(w)
        \/ StreamEnd(w)
        \/ ParseErr(w)
        \/ ParseOk(w)
        \/ AcquireIndex(w)
        \/ AnyMatches(w)
        \/ Discard(w)
        \/ FetchAdd(w)
        \/ Insert(w)
        \/ Drop(w)
        \/ Stats(w)
        \/ AcquireOut(w)
        \/ Writeln(w)

Next == PipeNext /\ UNCHANGED <<sigVars, lshVars>>

Spec == Init /\ [][Next]_vars

\* the steps of one worker thread
WorkerStep(w) ==
    /\ \/ Exhaust(w) \/ TakeErr(w) \/ TakeOk(w) \/ StreamEnd(w)
       \/ ParseErr(w) \/ ParseOk(w) \/ AcquireIndex(w) \/ AnyMatches(w)
       \/ Discard(w) \/ FetchAdd(w) \/ Insert(w) \/ Drop(w)
       \/ Stats(w) \/ AcquireOut(w) \/ Writeln(w)
    /\ UNCHANGED <<sigVars, lshVars>>

\* the pool runs every worker thread that can take a step; a thread blocked on
\* a lock runs again once the lock is free
FairSpec == Init /\ [][Next]_vars /\ \A w \in Workers : WF_vars(WorkerStep(w))

\* the run has terminated: the reader is exhausted and every closure returned
Terminated == exhausted /\ \A w \in Workers : pc[w] = "idle"

\* ------------------------------------------- harness: RMinHash (SpecSig)
\* the items update is called with
Tokens == { <<"x">>, <<"y">> }
ItemLists == SeqsUpTo(Tokens, 2) \ {<<>>}
SigSeeds == {0, 1}

\* g.update(items)
SigUpdate(g, items) ==
    /\ sg_calls[g] < MaxUpdates
    /\ sg' = [sg EXCEPT ![g] = update(sg[g], items)]
    /\ sg_items' = [sg_items EXCEPT ![g] = @ \o items]
    /\ sg_calls' = [sg_calls EXCEPT ![g] = @ + 1]
    /\ UNCHANGED sg_seed

SigNext ==
    /\ \E g \in Generators, items \in ItemLists : SigUpdate(g, items)
    /\ UNCHANGED <<pipeVars, lshVars>>

SigInit == PipeInit /\ LshInit /\ \E seed \in SigSeeds : SigInitWith(seed)

SpecSig == SigInit /\ [][SigNext]_vars

\* ---------------------------------------- harness: RMinHashLSH (SpecLSH)
\* the signatures the harness inserts and looks up
LshContents == { <<"y", " ", "z">>, <<"z">>, <<"y">>, <<"x", " ", "1">> }
\* a signature whose slots past the last band are all v
retrail(minhash, v) ==
    [minhash EXCEPT !.hash_values =
        [j \in 1..Len(@) |-> IF j > NumBands * (NumPerm \div NumBands) THEN v ELSE @[j]]]
LshSigs == {minhash_of(c) : c \in LshContents}
             \cup {FreshHasher, retrail(minhash_of(<<"y">>), 0)}
LshKeys == 0..MaxKey

\* lx.insert(key, &minhash)
LshInsert(key, minhash) ==
    /\ Len(lx_log) < MaxInserts
    /\ lx' = insert(lx, key, minhash)
    /\ lx_log' = Append(lx_log, [key |-> key, hash_values |-> digest(minhash)])
    /\ lx_last' = [op |-> "insert", key |-> key,
                   hash_values |-> digest(minhash), result |-> <<>>]

\* lx.query(&minhash)
LshQuery(minhash) ==
    /\ lx_last' = [op |-> "query", key |-> 0,
                   hash_values |-> digest(minhash), result |-> query(lx, minhash)]
    /\ UNCHANGED <<lx, lx_log>>

\* lx.any_matches(&minhash)
LshAnyMatches(minhash) ==
    /\ lx_last' = [op |-> "any_matches", key |-> 0,
                   hash_values |-> digest(minhash),
                   result |-> any_matches(lx, minhash)]
    /\ UNCHANGED <<lx, lx_log>>

LshNext ==
    /\ \E minhash \in LshSigs :
        \/ \E key \in LshKeys : LshInsert(key, minhash)
        \/ LshQuery(minhash)
        \/ LshAnyMatches(minhash)
    /\ UNCHANGED <<pipeVars, sigVars>>

SpecLSH == Init /\ [][LshNext]_vars

\* =============================================================== claims
Range(q) == {q[i] : i \in DOMAIN q}
Bands == 0..(NumBands - 1)

\* an RMinHash holding the given slots
hasher_of(hash_values) == [FreshHasher EXCEPT !.hash_values = hash_values]

\* the index holding exactly the records of a history, inserted in order
RECURSIVE Replay(_)
Replay(log) ==
    IF log = <<>> THEN RMinHashLSH_new(Threshold, NumPerm, NumBands)
    ELSE LET e == log[Len(log)] IN
         insert(Replay(SubSeq(log, 1, Len(log) - 1)), e.key, hasher_of(e.hash_values))

\* two signatures have the same band-hash in some band
BandCollide(d1, d2) ==
    \E i \in Bands : band_hash_of(big_lsh, d1, i) = band_hash_of(big_lsh, d2, i)

\* C1: no two accepted records band-collide: the index holds exactly the
\* inserted records, each inserted record had no match in the index of the
\* records inserted before it, and no band of one accepted record has the
\* band-hash of the same band of another.
C1_NoCollidingAccepts ==
    /\ big_lsh.hash_tables = Replay(inserted).hash_tables
    /\ \A n \in 1..Len(inserted) :
        any_matches(Replay(SubSeq(inserted, 1, n - 1)),
                    hasher_of(inserted[n].hash_values)) = None
    /\ \A m, n \in 1..Len(inserted) :
        m # n => ~BandCollide(inserted[m].hash_values, inserted[n].hash_values)

\* two workers raced with colliding records: one was inserted and is past the
\* critical section, the other got a match
C1_Witness ==
    \E w, v \in Workers :
        /\ pc[w] = "discard"
        /\ pc[v] \in {"stats", "out_lock", "writeln"}
        /\ file_with_contents[w] # file_with_contents[v]
        /\ BandCollide(digest(minhasher[w]), digest(minhasher[v]))
        /\ Len(inserted) = 2

InCritical(w) == pc[w] \in {"any_matches", "discard", "fetch_add", "insert", "drop"}

C2_Mutex ==
    /\ \A w, v \in Workers : (InCritical(w) /\ InCritical(v)) => w = v
    /\ \A w \in Workers : InCritical(w) <=> lsh_lock = w

\* a step taken while w is between its any_matches and its insert: no other
\* worker runs any_matches, takes a key or inserts, and the index and the
\* counter change only by w's own fetch_add and insert
C2_Step ==
    \A w \in Workers :
        pc[w] \in {"fetch_add", "insert"} =>
            /\ \A v \in Workers \ {w} :
                /\ matches'[v] = matches[v]
                /\ current_accepted'[v] = current_accepted[v]
                /\ pc[v] \in {"any_matches", "fetch_add", "insert"} => pc'[v] = pc[v]
                /\ pc'[v] \in {"discard", "fetch_add", "insert", "drop"} => pc'[v] = pc[v]
            /\ (pc'[w] = pc[w] => (big_lsh' = big_lsh /\ accepted' = accepted))
            /\ (pc[w] = "fetch_add" => big_lsh' = big_lsh)
            /\ (pc[w] = "insert" => accepted' = accepted)

\* C2: acquire, any_matches, fetch-and-increment, insert, release is one
\* critical section: at most one worker is between acquire and release, and
\* between a record's any_matches and its insert no other record's
\* any_matches, key assignment or insert takes place.
C2_CriticalSection == [](C2_Mutex) /\ [][C2_Step]_vars

\* one worker is about to insert while the other waits for the lock
C2_Witness ==
    \E w, v \in Workers :
        /\ pc[w] = "insert"
        /\ pc[v] = "write_lock"
        /\ accepted = 2

\* the keys held by table i
KeysOf(lsh, i) == UNION {Range(lsh.hash_tables[i][h]) : h \in DOMAIN lsh.hash_tables[i]}

\* C3: key assignment is gap-free and non-repeating: when no worker holds
\* the index lock, the keys in every band table are exactly
\* 0..accepted-1, and the n-th inserted record has key n-1.
C3_KeysGapFree ==
    lsh_lock = NoWorker =>
        /\ \A i \in Bands : KeysOf(big_lsh, i) = 0..(accepted - 1)
        /\ Len(inserted) = accepted
        /\ \A n \in 1..Len(inserted) : inserted[n].key = n - 1

C3_Witness ==
    /\ lsh_lock = NoWorker
    /\ accepted = 2
    /\ \A i \in Bands : KeysOf(big_lsh, i) = {0, 1}

RECURSIVE SumOver(_, _)
SumOver(f, S) ==
    IF S = {} THEN 0
    ELSE LET x == CHOOSE y \in S : TRUE IN f[x] + SumOver(f, S \ {x})

ParsedTotal == SumOver(parsed, Files)

\* the input held exactly two records, of the same contents and different names
TwoIdenticalRecords ==
    /\ ParsedTotal = 2
    /\ records_read = 2
    /\ \E f, g \in Files :
        /\ f.filename # g.filename
        /\ f.contents = g.contents
        /\ parsed[f] = 1
        /\ parsed[g] = 1

\* C4: of two records with identical contents and different names (and nothing
\* else in the input) exactly one is accepted and the output holds exactly one
\* record; and a record whose signature equals that of an inserted record
\* always gets a match from any_matches and is discarded.
C4_IdenticalRejected ==
    /\ (Terminated /\ TwoIdenticalRecords) =>
        (accepted = 1 /\ Len(out_file) = 1 /\ Len(inserted) = 1)
    /\ \A w \in Workers :
        (/\ pc[w] \in {"discard", "fetch_add"}
         /\ \E n \in 1..Len(inserted) : inserted[n].hash_values = digest(minhasher[w]))
        => (pc[w] = "discard" /\ matches[w] # None)

\* the two identical records came on two lines, and the run has terminated
C4_Witness ==
    /\ Terminated
    /\ TwoIdenticalRecords
    /\ lines_read = 2
    /\ content_bytes = 10
    /\ accepted_bytes = 5
    /\ Len(out_file) = 1

Count(q, x) == Cardinality({i \in DOMAIN q : q[i] = x})

\* C5: at termination the output holds exactly one line per accepted record:
\* as many lines as the acceptance counter says, every inserted record exactly
\* once, and nothing else.
C5_OutputIsAccepted ==
    Terminated =>
        /\ Len(out_file) = accepted
        /\ Len(inserted) = accepted
        /\ \A n \in 1..Len(inserted) : Count(out_file, inserted[n].file) = 1
        /\ \A i \in 1..Len(out_file) :
            \E n \in 1..Len(inserted) : out_file[i] = inserted[n].file

\* terminated with a record discarded and two records written in the order
\* opposite to their insertion
C5_Witness ==
    /\ Terminated
    /\ ParsedTotal = 3
    /\ Len(out_file) = 2
    /\ out_file[1] = inserted[2].file
    /\ out_file[2] = inserted[1].file

\* what a discarded record must leave alone
EngineState == <<big_lsh, accepted, accepted_bytes, accepted_tokens, out_file>>

C6_Step ==
    \A w \in Workers :
        /\ (pc[w] = "next" /\ pc'[w] = "write_lock") => EngineState' = EngineState
        /\ (pc[w] = "write_lock" /\ pc'[w] = "any_matches") => EngineState' = EngineState
        /\ (pc[w] = "any_matches" /\ pc'[w] = "discard") => EngineState' = EngineState
        /\ (pc[w] = "discard" /\ pc'[w] # "discard") =>
            /\ EngineState' = EngineState
            /\ lsh_lock = w
            /\ lsh_lock' = NoWorker
            /\ pc'[w] = "next"

\* C6: rejecting a record has no side effects: the steps that process a record
\* any_matches finds a match for leave the index, the acceptance counter, the
\* accepted-byte and accepted-token counters and the output unchanged, and the
\* index lock is released.
C6_RejectNoEffect == [][C6_Step]_vars

\* any_matches reported a match against a non-empty index while the other
\* worker is between its own acceptance and its write
C6_Witness ==
    \E w, v \in Workers :
        /\ pc[w] = "discard"
        /\ matches[w] = Some(<<0>>)
        /\ pc[v] = "stats"
        /\ accepted = 2

\* table i of lx has a bucket for the band-i hash of the signature d
HasBucket(d, i) == band_hash_of(lx, d, i) \in DOMAIN lx.hash_tables[i]

\* C7: any_matches(s) returns a match if and only if some band i has the
\* band-hash of s's band-i slice as a bucket of table i; on an empty index it
\* returns no match for every signature.
C7_AnyMatchesIffBucket ==
    lx_last.op = "any_matches" =>
        /\ (lx_last.result # None) <=> (\E i \in Bands : HasBucket(lx_last.hash_values, i))
        /\ (lx_log = <<>> => lx_last.result = None)

\* a match found in a later band only: the first table has no bucket for it
C7_Witness ==
    /\ lx_last.op = "any_matches"
    /\ lx_last.result # None
    /\ ~HasBucket(lx_last.hash_values, 0)
    /\ Len(lx_log) = 2

IsAscending(q) == \A i, j \in DOMAIN q : i < j => q[i] < q[j]

\* C8: query(s) returns the union of the matching buckets of all bands, with
\* no key twice and in ascending order, and it contains every key that was
\* inserted with the signature s.
C8_QueryUnionSorted ==
    lx_last.op = "query" =>
        /\ IsAscending(lx_last.result)
        /\ Range(lx_last.result) =
            UNION {Range(lx.hash_tables[i][band_hash_of(lx, lx_last.hash_values, i)]) :
                     i \in {j \in Bands : HasBucket(lx_last.hash_values, j)}}
        /\ \A n \in 1..Len(lx_log) :
            lx_log[n].hash_values = lx_last.hash_values
                => lx_log[n].key \in Range(lx_last.result)

\* a query for a signature inserted with key 1 and then, under another
\* signature sharing a band, key 0: the buckets hold 1 before 0 and 1 thrice
C8_Witness ==
    /\ lx_last.op = "query"
    /\ lx_last.result = <<0, 1>>
    /\ Len(lx_log) = 2
    /\ lx_log[1].key = 1
    /\ lx_log[2].key = 0
    /\ lx_log[1].hash_values = lx_last.hash_values
    /\ lx_log[2].hash_values # lx_last.hash_values

\* C9: the digest depends only on the set of tokens: two generators built with
\* the same num_perm and seed that were updated with the same set of tokens
\* (in any order, with any repetition, over any number of update calls) have
\* identical digests.
C9_DigestOfTokenSet ==
    Range(sg_items[1]) = Range(sg_items[2]) => digest(sg[1]) = digest(sg[2])

\* [x, y] in one call against y, x, x over two calls
C9_Witness ==
    /\ sg_items[1] = << <<"x">>, <<"y">> >>
    /\ sg_calls[1] = 1
    /\ sg_items[2] = << <<"y">>, <<"x">>, <<"x">> >>
    /\ sg_calls[2] = 2
    /\ digest(sg[1]) # digest(RMinHash_new(NumPerm, sg_seed))

\* a malformed embedded record leaves the engine alone
C10_ErrStep ==
    \A w \in Workers :
        (pc[w] = "next" /\ pc'[w] = "next" /\ rest'[w] # rest[w]) =>
            /\ EngineState' = EngineState
            /\ content_bytes' = content_bytes

\* when the loop over a line ends, every embedded record of the line was read
C10_LineStep ==
    \A w \in Workers :
        (pc[w] = "next" /\ pc'[w] = "idle") => rest[w] = <<>>

\* C10: a parse failure of one embedded record skips only that record: it
\* changes neither the index, the counters nor the output, and the remaining
\* embedded records of the line are still parsed.
C10_ParseFailureSkipsOne == [][C10_ErrStep /\ C10_LineStep]_vars

\* C10, first half only: the failure itself changes nothing
C10_ParseFailureNoEffect == [][C10_ErrStep]_vars

\* a line that does not decode changes the line count and nothing else: the
\* engine, the counters, the reader and every worker's record are as before
C11_Step ==
    lines_failed' # lines_failed =>
        /\ EngineState' = EngineState
        /\ <<content_bytes, inserted, parsed, lsh_lock, out_lock>>'
             = <<content_bytes, inserted, parsed, lsh_lock, out_lock>>
        /\ <<pc, rest, failed, done, locals>>' = <<pc, rest, failed, done, locals>>
        /\ <<exhausted, records_read>>' = <<exhausted, records_read>>
        /\ lines_read' = lines_read + 1

\* a line written to the output stays there
C11_OutputKept == SubSeq(out_file', 1, Len(out_file)) = out_file

\* after a run in which some line did not decode, the records accepted from
\* the other lines are all in the output
C11_AtEnd ==
    (Terminated /\ lines_failed > 0) =>
        /\ Len(out_file) = accepted
        /\ \A n \in 1..Len(inserted) : Count(out_file, inserted[n].file) = 1

\* C11: a decode failure on one line skips that line and nothing else: index,
\* counters and output are unchanged by it, the other lines are still
\* processed, and a record accepted from another line is in the output at
\* termination.
C11_DecodeFailureSkipsLine == [](C11_AtEnd) /\ [][C11_Step /\ C11_OutputKept]_vars

\* two lines, one of which did not decode; the record of the other was
\* accepted and written
C11_Witness ==
    /\ Terminated
    /\ lines_read = 2
    /\ lines_failed = 1
    /\ records_read = 1
    /\ accepted = 1
    /\ Len(out_file) = 1

\* the slots band i reads, found by slicing the signature <<1, 2, ..>>
SlotsOfBand(lsh, i) == Range(band_slice(lsh, [j \in 1..lsh.num_perm |-> j], i))
TrailValues == {0, U32Max}

\* C12: with band_size = floor(num_perm / num_bands), band i covers the slots
\* from i*band_size up to i*band_size + band_size, bands do not overlap, and
\* the slots from num_bands*band_size on are read by no operation: two
\* signatures that differ only there give the same insert, the same query
\* and the same any_matches on every index.
C12_TrailingSlotsUnread ==
    /\ lx.band_size = lx.num_perm \div lx.num_bands
    /\ \A i \in Bands :
        SlotsOfBand(lx, i) = (i * lx.band_size + 1)..(i * lx.band_size + lx.band_size)
    /\ \A i, j \in Bands : i # j => SlotsOfBand(lx, i) \cap SlotsOfBand(lx, j) = {}
    /\ \A minhash \in LshSigs : \A v \in TrailValues :
        retrail(minhash, v) # minhash =>
        /\ any_matches(lx, retrail(minhash, v)) = any_matches(lx, minhash)
        /\ query(lx, retrail(minhash, v)) = query(lx, minhash)
        /\ \A key \in LshKeys :
            insert(lx, key, retrail(minhash, v)) = insert(lx, key, minhash)

\* a signature that was never inserted got a match, because it differs from an
\* inserted one only in a slot past the last band
C12_Witness ==
    /\ lx_last.op = "any_matches"
    /\ lx_last.result # None
    /\ \A n \in 1..Len(lx_log) : lx_log[n].hash_values # lx_last.hash_values
    /\ \E n \in 1..Len(lx_log) :
        /\ \A j \in 1..(NumBands * lx.band_size) :
            lx_log[n].hash_values[j] = lx_last.hash_values[j]
        /\ \E j \in (NumBands * lx.band_size + 1)..NumPerm :
            lx_log[n].hash_values[j] # lx_last.hash_values[j]

IsPrefix(a, b) == Len(a) <= Len(b) /\ SubSeq(b, 1, Len(a)) = a

\* every bucket of the first table is in the second, with its keys in front
TableGrows(t1, t2) ==
    /\ DOMAIN t1 \subseteq DOMAIN t2
    /\ \A h \in DOMAIN t1 : IsPrefix(t1[h], t2[h])

C13_Step ==
    /\ DOMAIN big_lsh'.hash_tables = DOMAIN big_lsh.hash_tables
    /\ \A i \in DOMAIN big_lsh.hash_tables :
        TableGrows(big_lsh.hash_tables[i], big_lsh'.hash_tables[i])
    /\ IsPrefix(inserted, inserted')
    /\ accepted' >= accepted

\* C13: the index only grows: across every step each band table keeps its
\* buckets and each bucket keeps its keys in their positions, and a record
\* once accepted stays accepted whatever comes later.
C13_IndexOnlyGrows == [][C13_Step]_vars

\* the first accepted record is still in every table after a second record
\* was accepted and a third was rejected
C13_Witness ==
    /\ Len(inserted) = 2
    /\ records_read = 3
    /\ \E w \in Workers : pc[w] = "discard"
    /\ \A i \in Bands :
        LET h == band_hash_of(big_lsh, inserted[1].hash_values, i) IN
        /\ h \in DOMAIN big_lsh.hash_tables[i]
        /\ big_lsh.hash_tables[i][h] = <<inserted[1].key>>

\* thresholds another run could give the constructor, in tenths
OtherThresholds == {0, 5, 10}

\* the index a run with threshold t has after the same inserts
WithThreshold(lsh, t) == [lsh EXCEPT !.threshold = t]

\* the constructor keeps the threshold and builds the same empty tables
C14_SameStart ==
    \A t \in OtherThresholds :
        WithThreshold(RMinHashLSH_new(Threshold, NumPerm, NumBands), t)
          = RMinHashLSH_new(t, NumPerm, NumBands)

\* the check and the insert of the record at hand do not read the threshold
C14_Inv ==
    /\ C14_SameStart
    /\ \A w \in Workers : \A t \in OtherThresholds :
        /\ pc[w] = "any_matches" =>
            any_matches(WithThreshold(big_lsh, t), minhasher[w])
              = any_matches(big_lsh, minhasher[w])
        /\ pc[w] = "insert" =>
            insert(WithThreshold(big_lsh, t), current_accepted[w], minhasher[w])
              = WithThreshold(insert(big_lsh, current_accepted[w], minhasher[w]), t)

\* C14: the decision does not depend on the threshold: a run with another
\* threshold starts from the same tables, gets the same answer from
\* any_matches for the record being checked and the same tables from insert,
\* so it makes the same decisions and reaches the same index; a record is
\* rejected although it is not similar, by the threshold, to any accepted one.
C14_ThresholdUnused == []C14_Inv

\* a record was rejected on one colliding band although its similarity to
\* every accepted record is below the threshold
C14_Witness ==
    \E w \in Workers :
        /\ pc[w] = "discard"
        /\ Len(inserted) > 0
        /\ \A n \in 1..Len(inserted) :
            ~is_similar(big_lsh, minhasher[w], hasher_of(inserted[n].hash_values))
        /\ Cardinality({i \in Bands : \E n \in 1..Len(inserted) :
               band_hash_of(big_lsh, digest(minhasher[w]), i)
                 = band_hash_of(big_lsh, inserted[n].hash_values, i)}) = 1

\* the signature main computes for a record
signature_of(f) == digest(Signatures[f])

\* the worker is inside the loop body, with a record at hand
Handling(w) == pc[w] \notin {"idle", "next"}

\* the records of the worker's line: those handled, the one at hand, those
\* still in the stream
LineOf(w) ==
    [k \in 1..Len(done[w]) |-> done[w][k].file]
      \o (IF Handling(w) THEN <<file_with_contents[w]>> ELSE <<>>)
      \o rest[w]

\* while a worker is on a line whose stream has not failed, its records pass
\* from the stream to the loop body to the handled ones one at a time, in
\* the order of the text
C15_OrderStep ==
    \A w \in Workers :
        (pc[w] # "idle" /\ pc'[w] # "idle" /\ ~failed'[w]) => LineOf(w)' = LineOf(w)

C15_Inv ==
    \A w \in Workers :
        /\ \A k \in 1..Len(done[w]) :
            done[w][k].accepted =>
                \E n \in 1..Len(inserted) :
                    /\ inserted[n].file = done[w][k].file
                    /\ \A i \in Bands :
                        band_hash_of(big_lsh, inserted[n].hash_values, i)
                          \in DOMAIN big_lsh.hash_tables[i]
        /\ pc[w] \in {"fetch_add", "insert", "drop", "stats", "out_lock", "writeln"} =>
            \A k \in 1..Len(done[w]) :
                BandCollide(signature_of(done[w][k].file), digest(minhasher[w]))
                    => ~done[w][k].accepted
        /\ \A v \in Workers :
            (v # w /\ pc[w] = "write_lock" /\ pc[v] = "write_lock" /\ lsh_lock = NoWorker)
                => (ENABLED AcquireIndex(w)) /\ (ENABLED AcquireIndex(v))

\* C15: the records of one line are handled in textual order by one worker:
\* an earlier record's decision, and its insert if it was accepted, is
\* complete before a later record's check begins, so a later record that
\* collides with an earlier one of its line is accepted only if the earlier
\* one was rejected; two workers on different lines that both wait for the
\* index may each be the next to get it.
C15_InLineOrder == [](C15_Inv) /\ [][C15_OrderStep]_vars

\* one line held two colliding records: the first was accepted, the second
\* rejected
C15_Witness ==
    \E w \in Workers :
        /\ pc[w] = "next"
        /\ Len(done[w]) = 2
        /\ done[w][1].accepted
        /\ ~done[w][2].accepted
        /\ done[w][1].file # done[w][2].file
        /\ BandCollide(signature_of(done[w][1].file), signature_of(done[w][2].file))
        /\ Len(inserted) = 1

\* two colliding records on different lines: either can be the accepted one
C15_OneAccepted(f, g) ==
    /\ Terminated
    /\ lines_read = 2 /\ lines_failed = 0 /\ records_read = 2
    /\ parsed[f] = 1 /\ parsed[g] = 1
    /\ Len(inserted) = 1 /\ inserted[1].file = f
C15_FirstOfPair ==
    \E f, g \in Files : f.filename = "a.py" /\ g.filename = "c.py" /\ C15_OneAccepted(f, g)
C15_SecondOfPair ==
    \E f, g \in Files : f.filename = "a.py" /\ g.filename = "c.py" /\ C15_OneAccepted(g, f)

\* some accepted record has a band in common with the signature
CollidesWithAccepted(d) ==
    \E n \in 1..Len(inserted) : BandCollide(inserted[n].hash_values, d)

\* every rejected record collides with an accepted one
C16_Inv ==
    /\ \A w \in Workers :
        /\ pc[w] = "discard" => CollidesWithAccepted(digest(minhasher[w]))
        /\ \A k \in 1..Len(done[w]) :
            ~done[w][k].accepted => CollidesWithAccepted(signature_of(done[w][k].file))
    /\ Terminated =>
        \A f \in Files :
            parsed[f] > 0 =>
                \/ \E n \in 1..Len(inserted) :
                    /\ inserted[n].file = f
                    /\ any_matches(big_lsh, hasher_of(inserted[n].hash_values))
                         = Some(<<inserted[n].key>>)
                \/ /\ \A n \in 1..Len(inserted) : inserted[n].file # f
                   /\ CollidesWithAccepted(signature_of(f))

\* C16: a record is rejected only when it band-collides with an accepted
\* record, and at termination every parsed record is in the index or
\* band-collides with a record that is: no further record of the input could
\* have been accepted.
C16_RejectedOnlyOnCollision == []C16_Inv

\* a run of three different records has ended: two are in the index and the
\* third, rejected, collides with one of them
C16_Witness ==
    /\ Terminated
    /\ Len(inserted) = 2
    /\ \E f \in Files :
        /\ parsed[f] = 1
        /\ \A n \in 1..Len(inserted) : inserted[n].file # f
        /\ \A n \in 1..Len(inserted) : inserted[n].hash_values # signature_of(f)
        /\ CollidesWithAccepted(signature_of(f))

\* C17: for a finite input and a scheduler that runs every worker that can
\* run, the run terminates: every parsed record is eventually accepted or
\* rejected, every lock acquired is eventually released, and no worker waits
\* forever for the index lock or the output lock.
C17_Terminates ==
    /\ <>[]Terminated
    /\ (lsh_lock # NoWorker) ~> (lsh_lock = NoWorker)
    /\ (out_lock # NoWorker) ~> (out_lock = NoWorker)
    /\ \A w \in Workers :
        /\ Handling(w) ~> (pc[w] = "next")
        /\ (pc[w] = "write_lock") ~> (lsh_lock = w)
        /\ (pc[w] = "out_lock") ~> (out_lock = w)

\* a worker waits for the index lock while the other holds it, and a record
\* has still to be read
C17_Witness ==
    \E w, v \in Workers :
        /\ pc[w] = "write_lock"
        /\ lsh_lock = v
        /\ v # w
        /\ rest[v] # <<>>

\* the buckets of table i that hold the key
BucketsWith(lsh, i, key) ==
    {h \in DOMAIN lsh.hash_tables[i] : key \in Range(lsh.hash_tables[i][h])}

\* the shape of the band tables
C18_Inv ==
    /\ \A i \in Bands : \A h \in DOMAIN big_lsh.hash_tables[i] :
        Len(big_lsh.hash_tables[i][h]) = 1
    /\ \A n \in 1..Len(inserted) : \A i \in Bands :
        Cardinality(BucketsWith(big_lsh, i, inserted[n].key)) = 1
    /\ lsh_lock = NoWorker =>
        \A i \in Bands :
            /\ Cardinality(DOMAIN big_lsh.hash_tables[i]) = accepted
            /\ \A key \in 0..(accepted - 1) :
                Cardinality(BucketsWith(big_lsh, i, key)) = 1

\* C18: as main uses the index (insert only after any_matches found nothing,
\* under the same lock), every bucket of every band table holds exactly one
\* key, the key of every inserted record is in exactly one bucket of each
\* table, and whenever the index lock is free each table has as many buckets
\* as records were accepted, one for each key given out.
C18_OneKeyPerBucket == []C18_Inv

\* two records are in the index, a third was rejected, and the lock is free
C18_Witness ==
    /\ lsh_lock = NoWorker
    /\ accepted = 2
    /\ ParsedTotal = 3
    /\ \E w \in Workers : \E k \in 1..Len(done[w]) : ~done[w][k].accepted
    /\ \A i \in Bands : Cardinality(DOMAIN big_lsh.hash_tables[i]) = 2

\* the worker takes the step
Stepper(w) == pc'[w] # pc[w]

\* no worker holds both locks, and a worker past drop(lsh) does not hold the
\* index lock
C19_NotNested ==
    \A w \in Workers :
        /\ ~(lsh_lock = w /\ out_lock = w)
        /\ pc[w] \in {"stats", "out_lock", "writeln"} => lsh_lock # w

\* a state in which no worker can take a step is the end of the run
C19_NoDeadlock == (ENABLED PipeNext) \/ Terminated

\* a step that changes the counters is taken by a worker that does not hold
\* the index lock
UpdatedOutsideLock(counters) ==
    counters' # counters => \A w \in Workers : Stepper(w) => lsh_lock # w

\* the output lock is taken by a worker that does not hold the index lock
C19_OutputStep ==
    \A w \in Workers : (out_lock # w /\ out_lock' = w) => (lsh_lock # w /\ lsh_lock' # w)

\* the statement with the accepted count among the statistics updated after
\* the index lock is released
C19_StatisticsAfterRelease ==
    /\ [](C19_NotNested /\ C19_NoDeadlock)
    /\ [][/\ UpdatedOutsideLock(<<accepted, accepted_bytes, accepted_tokens>>)
          /\ C19_OutputStep]_vars

\* C19: no worker holds the index lock and the output lock at once: the index
\* lock is released before the byte and token counts are updated and before
\* the output lock is acquired, and no reachable state is a deadlock; the
\* accepted count is incremented by the worker holding the index lock.
C19_LocksNotNested ==
    /\ [](C19_NotNested /\ C19_NoDeadlock)
    /\ [][/\ UpdatedOutsideLock(<<accepted_bytes, accepted_tokens>>)
          /\ C19_OutputStep
          /\ accepted' # accepted => \A w \in Workers : Stepper(w) => lsh_lock = w]_vars

\* one worker holds the output lock for an accepted record while the other
\* holds the index lock
C19_Witness ==
    \E w, v \in Workers :
        /\ pc[w] = "writeln"
        /\ out_lock = w
        /\ lsh_lock = v
        /\ v # w

====
